---- MODULE Spec2Model ----
(***************************************************************************)
(* Model of @praha/diva: createContext (resolver / provider /              *)
(* provider.transient), StackStorage (getStack / getItem / run) on top of  *)
(* AsyncLocalStorage, and mockContext.                                      *)
(*                                                                         *)
(* JavaScript is single threaded: one synchronous call stack runs at a     *)
(* time (callstack) and every other continuation is suspended (susp).      *)
(* A continuation gives up control only at an await (Suspend); resolver,   *)
(* builderFn and builders are synchronous functions and never do.          *)
(***************************************************************************)
EXTENDS Integers, Sequences, FiniteSets, TLC

(* ---------------- bounds ---------------- *)
\* calls a run's continuations make in all (provider, provider.transient,
\* resolver, mockContext, mockContext.transient, starting a continuation)
MaxOps == 5         \* under Spec
MaxMockOps == 4     \* under SpecMock
MaxAsyncOps == 5    \* under SpecAsync
MaxSlotOps == 4     \* under SpecSlot
MaxComposeOps == 3  \* under SpecCompose
MaxPairOps == 5     \* under SpecPair
MaxSharedOps == 4   \* under SpecShared
MaxUnsetOps == 4    \* under SpecUnset
MaxNestOps == 4     \* under SpecNest

(* ---------------- program constants ---------------- *)
\* the contexts of a run, each made by one createContext call
Contexts == {1, 2}

\* what a user builder does when invoked
\*   fresh: () => new Counter()          self: () => f(counter())
\*   fail:  () => { throw ... }
\*   fn:    () => handler, the provided value being itself a function
\*   undef: () => undefined (or a builder without a return)
BuilderKinds == {"fresh", "self", "fail"}
Modes == {"scoped", "transient"}

\* JavaScript values: undefined, an object with identity n, or a function
\* (the n-th kind of builder)
Undefined == [t |-> "undefined", n |-> 0]
Obj(n) == [t |-> "object", n |-> n]
KindIdx(b) ==
  CASE b = "fresh" -> 1 [] b = "self" -> 2 [] b = "fail" -> 3 [] b = "fn" -> 4
    [] b = "undef" -> 5
Fn(b) == [t |-> "function", n |-> KindIdx(b)]
BuilderOf(v) == CHOOSE b \in BuilderKinds \cup {"fn"} : KindIdx(b) = v.n
\* f(v): the object a self-referential builder derives from the value v
WrapBase == 100
Wrap(v) == [t |-> "object", n |-> v.n + WrapBase]

\* completion of a call: nothing pending, a returned value, or a thrown error
NoRet == [kind |-> "none", v |-> Undefined]
Val(v) == [kind |-> "val", v |-> v]
\* thrown values: 1 = Error('Context not provided...'), 2 = the builder's own
ContextNotProvided == Obj(-1)
BuilderFailure == Obj(-2)
Err(e) == [kind |-> "err", v |-> e]

VARIABLES
  stacks,     \* heap of the arrays handed to AsyncLocalStorage.run
  scopes,     \* one record per providerFn invocation (closure + bookkeeping)
  callstack,  \* the synchronous call stack now running
  susp,       \* suspended continuations, each with its async context
  mock,       \* provider[Mock], per context
  ret,        \* completion handed from a callee to its caller
  log,        \* completed resolver calls, in order
  nextObj,    \* identities handed out by `new`
  nextAid,    \* identities of continuations
  required,   \* createContext's option, per context
  left,       \* calls the continuations may still make
  mocks,      \* one record per mockContext / mockContext.transient call
  composes    \* one record per withContexts(contexts, fn) call

vars == <<stacks, scopes, callstack, susp, mock, ret, log, nextObj, nextAid,
          required, left, mocks, composes>>

(* ---------------- helpers on sequences ---------------- *)
Front(s) == SubSeq(s, 1, Len(s) - 1)
Last(s) == s[Len(s)]
Range(s) == {s[i] : i \in 1..Len(s)}

(* ---------------- activations ---------------- *)
NoExt == [c \in Contexts |-> <<>>]
NoEnv == [c \in Contexts |-> 0]

\* a continuation fn: env is its async context (per context, the array
\* AsyncLocalStorage.getStore() returns, 0 for undefined); ext is the
\* list of scopes whose extent it runs in, outermost first; scope is the
\* scope it is the continuation of (0: none); rest is the list of
\* scope-establishers a withContexts call has still to enter
Cont(aid, env, ext, scope) ==
  [kind |-> "cont", pc |-> "run", aid |-> aid, ctx |-> 0, item |-> 0,
   stack |-> 0, env |-> env, ext |-> ext, scope |-> scope, b |-> "none",
   rest |-> <<>>, pre |-> <<>>]

\* a resolver call of context c that popped item from array stack
\* (pre: what the array held when the call was made)
ResolverAct(c, item, stack) ==
  [kind |-> "resolver", pc |-> "got", aid |-> 0, ctx |-> c, item |-> item,
   stack |-> stack, env |-> NoEnv, ext |-> NoExt, scope |-> 0, b |-> "none",
   rest |-> <<>>, pre |-> IF stack = 0 THEN <<>> ELSE stacks[stack]]

\* a call of the closure builderFn of scope s
BuilderFnAct(s) ==
  [kind |-> "builderFn", pc |-> "start", aid |-> 0, ctx |-> 0, item |-> 0,
   stack |-> 0, env |-> NoEnv, ext |-> NoExt, scope |-> s, b |-> "none",
   rest |-> <<>>, pre |-> <<>>]

\* a call of a user builder of kind b for context c, on behalf of scope s
\* (0: as the mock factory or from mockContext)
BuilderAct(b, c, s) ==
  [kind |-> "builder", pc |-> "start", aid |-> 0, ctx |-> c, item |-> 0,
   stack |-> 0, env |-> NoEnv, ext |-> NoExt, scope |-> s, b |-> b,
   rest |-> <<>>, pre |-> <<>>]

Top == Last(callstack)
Running(k, p) == callstack # <<>> /\ Top.kind = k /\ Top.pc = p

\* the continuation whose async context the running code executes in
CurCont ==
  LET idx == {i \in 1..Len(callstack) : callstack[i].kind = "cont"}
      m == CHOOSE i \in idx : \A j \in idx : j <= i
  IN callstack[m]

ReplaceTop(a) == [callstack EXCEPT ![Len(callstack)] = a]


(* ---------------- StackStorage ---------------- *)
\* a module-level variable instead of AsyncLocalStorage: every continuation
\* reads the array made last
getStoreLatest(c) == Len(stacks)

\* one StackStorage shared by every createContext call: the store read is
\* that of the first context
getStoreShared(c) == CurCont.env[1]

\* this.storage.getStore(): the array AsyncLocalStorage keeps for the
\* running continuation, 0 (undefined) outside every run
getStore(c) == CurCont.env[c]

\* getStack(): the array of the current async context, [] when there is none
getStack(c) == IF getStore(c) = 0 THEN <<>> ELSE stacks[getStore(c)]

\* stack.shift() read instead of stack.pop(): the outermost frame
getItemFirst(c) == IF getStack(c) = <<>> THEN 0 ELSE Head(getStack(c))

\* getItem(): stack.pop(); 0 stands for undefined
getItemItem(c) == IF getStack(c) = <<>> THEN 0 ELSE Last(getStack(c))

\* the last frame read without being removed
getItemStacksPeek(c) == stacks

\* the arrays after getItem()'s stack.pop()
getItemStacks(c) ==
  IF getStack(c) = <<>> THEN stacks
  ELSE [stacks EXCEPT ![getStore(c)] = Front(@)]

\* the popped frame returned without a Symbol.dispose: never pushed back
disposeSkip(act) == stacks

\* stack.unshift(builder) instead of stack.push(builder)
disposeFront(act) ==
  IF act.item = 0 THEN stacks
  ELSE [stacks EXCEPT ![act.stack] = <<act.item>> \o @]

\* [Symbol.dispose]: () => stack.push(builder), run when `using` leaves scope
dispose(act) ==
  IF act.item = 0 THEN stacks
  ELSE [stacks EXCEPT ![act.stack] = Append(@, act.item)]

\* the frame pushed on the caller's own array, without the copy
runInPlace(c, item) ==
  IF getStore(c) = 0
  THEN [stacks |-> Append(stacks, <<item>>), store |-> Len(stacks) + 1]
  ELSE [stacks |-> [stacks EXCEPT ![getStore(c)] = Append(@, item)],
        store |-> getStore(c)]

\* run(item, fn): storage.run([...this.getStack(), item], fn) makes a new
\* array and calls fn with it as the store; the arrays after the call and
\* the store fn runs with
run(c, item) ==
  [stacks |-> Append(stacks, getStack(c) \o <<item>>),
   store |-> Len(stacks) + 1]

(* ---------------- state after construction ---------------- *)
InitWith(req, n) ==
  /\ stacks = <<>>
  /\ scopes = <<>>
  /\ callstack = <<Cont(1, NoEnv, NoExt, 0)>>
  /\ susp = {}
  /\ mock = [c \in Contexts |-> Undefined]
  /\ ret = NoRet
  /\ log = <<>>
  /\ nextObj = 1
  /\ nextAid = 2
  /\ required \in req
  /\ left = n
  /\ mocks = <<>>
  /\ composes = <<>>

\* createContext(): required defaults to true
Default == {[c \in Contexts |-> TRUE]}
\* createContext() or createContext({ required: false }) for context 1
Either == {[c \in Contexts |-> c # 1], [c \in Contexts |-> TRUE]}

Init == InitWith(Default, MaxOps)
InitMock == InitWith(Either, MaxMockOps)
InitAsync == InitWith(Default, MaxAsyncOps)
InitSlot == InitWith(Default, MaxSlotOps)
InitCompose == InitWith(Default, MaxComposeOps)
InitPair == InitWith(Default, MaxPairOps)
InitShared == InitWith(Default, MaxSharedOps)
InitUnset == InitWith(Either, MaxUnsetOps)
InitNest == InitWith(Default, MaxNestOps)

(* ---------------- provider ---------------- *)
\* the closure state of one providerFn invocation
\* builder() called when the scope is established instead of on demand
NewScopeEager(c, mode, b, by) ==
  [ctx |-> c, mode |-> mode, builder |-> b, cache |-> Obj(0),
   initialized |-> TRUE, count |-> 1, open |-> TRUE, by |-> by,
   cont |-> nextAid, outer |-> CurCont.ext[c],
   from |-> getStore(c), pre |-> getStack(c), post |-> <<>>,
   fnres |-> NoRet, res |-> NoRet]

\* (cache, initialized), with bookkeeping: count is the number of calls of
\* builder made for this scope, by the continuation that called provider,
\* cont the continuation fn, outer the scopes it was established in, from
\* the caller's array (0: none), pre and post what the caller's stack held
\* when it called provider and when the call completed, fnres the
\* completion of fn and res that of the provider call
NewScope(c, mode, b, by) ==
  [ctx |-> c, mode |-> mode, builder |-> b, cache |-> Undefined,
   initialized |-> FALSE, count |-> 0, open |-> TRUE, by |-> by,
   cont |-> nextAid, outer |-> CurCont.ext[c],
   from |-> getStore(c), pre |-> getStack(c), post |-> <<>>,
   fnres |-> NoRet, res |-> NoRet]

\* provider.transient wrapping builder in the caching closure too
FrameAlwaysBuilderFn(s) == scopes[s].mode \in Modes

\* the frame provider hands to storage.run is the closure builderFn, the
\* frame provider.transient hands to it is builder itself
FrameIsBuilderFn(s) == scopes[s].mode = "scoped"

\* the object storage.run receives as the frame of scope s: the closure
\* builderFn made by this providerFn call, or the caller's builder function
FrameObject(s) ==
  IF FrameIsBuilderFn(s) THEN [t |-> "builderFn", n |-> s]
  ELSE Fn(scopes[s].builder)

\* providerFn(fn), reached by provider(builder, fn) and by
\* provider(builder)(fn) alike (and the same for provider.transient):
\* storage.run puts the frame on a copy of the stack and calls fn with it
Provide(c, mode, b) ==
  /\ Running("cont", "run")
  /\ left > 0
  /\ LET s == Len(scopes) + 1
         r == run(c, s)
     IN /\ scopes' = Append(scopes, NewScope(c, mode, b, Top.aid))
        /\ stacks' = r.stacks
        /\ callstack' = Append(callstack,
               Cont(nextAid, [Top.env EXCEPT ![c] = r.store],
                    [Top.ext EXCEPT ![c] = Append(@, s)], s))
  /\ nextAid' = nextAid + 1
  /\ left' = left - 1
  /\ UNCHANGED <<susp, mock, ret, log, nextObj, required,
                 mocks, composes>>

\* fn returns: storage.run restores the caller's async context
\* (a run ends with the last call of its budget: no return, await or
\* resumption follows it)
Return ==
  /\ Running("cont", "run")
  /\ left > 0
  /\ callstack' = Front(callstack)
  /\ scopes' = IF Top.scope = 0 THEN scopes
               ELSE [scopes EXCEPT ![Top.scope].open = FALSE]
  /\ UNCHANGED <<stacks, susp, mock, ret, log, nextObj, nextAid, required,
                 left,
                 mocks, composes>>

(* ---------------- resolver ---------------- *)
\* the caller of the resolver call on top of the call stack
Caller == callstack[Len(callstack) - 1]

\* what served a resolver call: a frame of the stack, provider[Mock], nothing
Source(act) ==
  IF act.pc = "called" THEN "frame"
  ELSE IF mock[act.ctx] # Undefined THEN "mock" ELSE "none"

\* the record of a completed resolver call: who called (a continuation or
\* the builder of scope `of`), in which extent, what served it, its outcome
\* (depth: the continuation's place on the call stack, 1 when the event
\* loop resumed it; live: the scopes whose fn has not returned; pre, post:
\* what the array of the call held when the call was made and holds when it
\* completes, the frame disposed)
LogEntry(act, r) ==
  [aid |-> CurCont.aid, by |-> Caller.kind, of |-> Caller.scope,
   ctx |-> act.ctx, ext |-> CurCont.ext[act.ctx], item |-> act.item,
   src |-> Source(act), res |-> r,
   depth |-> Cardinality({i \in DOMAIN callstack :
                             callstack[i].kind = "cont"}),
   live |-> {s \in DOMAIN scopes : scopes[s].open},
   pre |-> act.pre,
   post |-> IF act.stack = 0 THEN <<>> ELSE dispose(act)[act.stack]]

\* `using builder = storage.getItem()`: the first statement of resolver
EnterResolver(c) ==
  /\ callstack' = Append(ReplaceTop([Top EXCEPT !.pc = "called"]),
                         ResolverAct(c, getItemItem(c), getStore(c)))
  /\ stacks' = getItemStacks(c)

\* a continuation calls the resolver of context c
Resolve(c) ==
  /\ Running("cont", "run")
  /\ left > 0
  /\ EnterResolver(c)
  /\ left' = left - 1
  /\ UNCHANGED <<scopes, susp, mock, ret, log, nextObj, nextAid, required,
                 mocks, composes>>

\* provider[Mock] looked at before the frame
UseFrameUnlessMock(act) == act.item # 0 /\ mock[act.ctx] = Undefined

\* `if (!builder)`: the resolver calls the frame it popped, if any
UseFrame(act) == act.item # 0

\* the `required` check left out
resolverFallbackNoThrow(c) ==
  IF mock[c] # Undefined THEN Val(mock[c]) ELSE Val(Undefined)

\* the `required` check not looking at the option
resolverFallbackAlwaysThrow(c) ==
  IF mock[c] # Undefined THEN Val(mock[c]) ELSE Err(ContextNotProvided)

\* the `required` check made before provider[Mock] is looked at
resolverFallbackThrowsFirst(c) ==
  IF required[c] THEN Err(ContextNotProvided)
  ELSE IF mock[c] # Undefined THEN Val(mock[c])
  ELSE Val(Undefined)

\* provider[Mock] returned whenever it has been assigned, undefined or not
resolverFallbackAssigned(c) ==
  IF \E k \in DOMAIN mocks : mocks[k].ctx = c /\ mocks[k].set
  THEN Val(mock[c])
  ELSE IF required[c] THEN Err(ContextNotProvided)
  ELSE Val(Undefined)

\* resolver without a frame and without a mock factory: provider[Mock] if
\* it is not undefined, else the throw if required, else undefined
resolverFallback(c) ==
  IF mock[c] # Undefined THEN Val(mock[c])
  ELSE IF required[c] THEN Err(ContextNotProvided)
  ELSE Val(Undefined)

\* the mockContext call that assigned provider[Mock] last, for context c
CurMock(c) ==
  CHOOSE k \in DOMAIN mocks :
    /\ mocks[k].ctx = c /\ mocks[k].set
    /\ \A j \in DOMAIN mocks : (mocks[j].ctx = c /\ mocks[j].set) => j <= k

\* provider[Mock] returned as it is, the typeof check left out
ResolverEmptyNoCall ==
  /\ Running("resolver", "got")
  /\ ~UseFrame(Top)
  /\ callstack' = Front(callstack)
  /\ stacks' = dispose(Top)
  /\ ret' = resolverFallback(Top.ctx)
  /\ log' = Append(log, LogEntry(Top, resolverFallback(Top.ctx)))
  /\ UNCHANGED <<scopes, susp, mock, nextObj, nextAid, required, left, mocks,
                 composes>>

\* resolver, no frame: provider[Mock] (called when it is a function), then
\* required, then undefined
ResolverEmpty ==
  /\ Running("resolver", "got")
  /\ ~UseFrame(Top)
  /\ LET m == mock[Top.ctx] IN
     IF m # Undefined /\ m.t = "function"
     THEN /\ callstack' = Append(ReplaceTop([Top EXCEPT !.pc = "mockcall"]),
                                 BuilderAct(BuilderOf(m), Top.ctx, 0))
          /\ mocks' = [mocks EXCEPT ![CurMock(Top.ctx)].used = @ + 1]
          /\ UNCHANGED <<stacks, ret, log>>
     ELSE /\ callstack' = Front(callstack)
          /\ stacks' = dispose(Top)
          /\ ret' = resolverFallback(Top.ctx)
          /\ log' = Append(log, LogEntry(Top, resolverFallback(Top.ctx)))
          /\ mocks' = mocks
  /\ UNCHANGED <<scopes, susp, mock, nextObj, nextAid, required, left,
                 composes>>

\* the frame pushed back before it is called instead of after
ResolverCallRestoresFirst ==
  /\ Running("resolver", "got")
  /\ UseFrame(Top)
  /\ stacks' = dispose(Top)
  /\ LET s == Top.item IN
     IF FrameIsBuilderFn(s)
     THEN /\ callstack' = Append(ReplaceTop([Top EXCEPT !.pc = "called"]),
                                 BuilderFnAct(s))
          /\ UNCHANGED scopes
     ELSE /\ callstack' = Append(ReplaceTop([Top EXCEPT !.pc = "called"]),
                                 BuilderAct(scopes[s].builder, Top.ctx, s))
          /\ scopes' = [scopes EXCEPT ![s].count = @ + 1]
  /\ UNCHANGED <<susp, mock, ret, log, nextObj, nextAid, required, left,
                 mocks, composes>>

\* resolver, frame found: `return builder()`; the frame is builderFn for a
\* scoped scope and the user's builder for a transient one
ResolverCall ==
  /\ Running("resolver", "got")
  /\ UseFrame(Top)
  /\ LET s == Top.item IN
     IF FrameIsBuilderFn(s)
     THEN /\ callstack' = Append(ReplaceTop([Top EXCEPT !.pc = "called"]),
                                 BuilderFnAct(s))
          /\ UNCHANGED scopes
     ELSE /\ callstack' = Append(ReplaceTop([Top EXCEPT !.pc = "called"]),
                                 BuilderAct(scopes[s].builder, Top.ctx, s))
          /\ scopes' = [scopes EXCEPT ![s].count = @ + 1]
  /\ UNCHANGED <<stacks, susp, mock, ret, log, nextObj, nextAid, required,
                 left,
                 mocks, composes>>

\* the frame pushed back by a statement after `builder()` instead of by
\* `using`: a throw skips it
ResolverReturnNoDisposeOnThrow ==
  /\ Running("resolver", "called") \/ Running("resolver", "mockcall")
  /\ ret # NoRet
  /\ stacks' = IF ret.kind = "val" THEN dispose(Top) ELSE stacks
  /\ callstack' = Front(callstack)
  /\ log' = Append(log, LogEntry(Top, ret))
  /\ UNCHANGED <<scopes, susp, mock, ret, nextObj, nextAid, required, left,
                 mocks, composes>>

\* the call made by resolver completed (returned or threw): `using` disposes
\* the frame, pushing it back, and the completion goes to resolver's caller
ResolverReturn ==
  /\ Running("resolver", "called") \/ Running("resolver", "mockcall")
  /\ ret # NoRet
  /\ stacks' = dispose(Top)
  /\ callstack' = Front(callstack)
  /\ log' = Append(log, LogEntry(Top, ret))
  /\ UNCHANGED <<scopes, susp, mock, ret, nextObj, nextAid, required, left,
                 mocks, composes>>

\* the continuation gets the resolver's completion (a thrown error is caught)
ContReceive ==
  /\ Running("cont", "called")
  /\ ret # NoRet
  /\ callstack' = ReplaceTop([Top EXCEPT !.pc = "run"])
  /\ ret' = NoRet
  /\ UNCHANGED <<stacks, scopes, susp, mock, log, nextObj, nextAid, required,
                 left,
                 mocks, composes>>

(* ---------------- builderFn and builders ---------------- *)
\* builderFn: if (!initialized) { cache = builder(); ... } return cache
BuilderFnEnter ==
  /\ Running("builderFn", "start")
  /\ LET s == Top.scope IN
     IF ~scopes[s].initialized
     THEN /\ callstack' = Append(ReplaceTop([Top EXCEPT !.pc = "called"]),
                 BuilderAct(scopes[s].builder, scopes[s].ctx, s))
          /\ scopes' = [scopes EXCEPT ![s].count = @ + 1]
          /\ ret' = ret
     ELSE /\ callstack' = Front(callstack)
          /\ ret' = Val(scopes[s].cache)
          /\ scopes' = scopes
  /\ UNCHANGED <<stacks, susp, mock, log, nextObj, nextAid, required, left,
                 mocks, composes>>

\* `initialized = true` left out
builderFnStoreNoInit(s, r) ==
  IF r.kind = "val" THEN [scopes EXCEPT ![s].cache = r.v] ELSE scopes

\* the closure state after builder() completed with r: on a value,
\* cache = value and initialized = true; a throw skips both assignments
builderFnStore(s, r) ==
  IF r.kind = "val"
  THEN [scopes EXCEPT ![s].cache = r.v, ![s].initialized = TRUE]
  ELSE scopes

\* builderFn after builder() completed
BuilderFnReturn ==
  /\ Running("builderFn", "called")
  /\ ret # NoRet
  /\ scopes' = builderFnStore(Top.scope, ret)
  /\ callstack' = Front(callstack)
  /\ UNCHANGED <<stacks, susp, mock, ret, log, nextObj, nextAid, required,
                 left,
                 mocks, composes>>

\* a user builder that does not resolve anything: () => new Counter(), one
\* that returns a function, or one that throws
BuilderRun ==
  /\ Running("builder", "start")
  /\ Top.b \in {"fresh", "fail", "fn", "undef"}
  /\ callstack' = Front(callstack)
  /\ CASE Top.b = "fresh" -> ret' = Val(Obj(nextObj)) /\ nextObj' = nextObj + 1
       [] Top.b = "fn" -> ret' = Val(Fn("fresh")) /\ nextObj' = nextObj
       [] Top.b = "undef" -> ret' = Val(Undefined) /\ nextObj' = nextObj
       [] Top.b = "fail" -> ret' = Err(BuilderFailure) /\ nextObj' = nextObj
  /\ UNCHANGED <<stacks, scopes, susp, mock, log, nextAid, required, left,
                 mocks, composes>>

\* a self-referential builder, () => f(counter()): it calls the resolver
BuilderResolve ==
  /\ Running("builder", "start")
  /\ Top.b = "self"
  /\ EnterResolver(Top.ctx)
  /\ UNCHANGED <<scopes, susp, mock, ret, log, nextObj, nextAid, required,
                 left,
                 mocks, composes>>

\* ... and wraps what the resolver returned; a throw passes through
BuilderWrap ==
  /\ Running("builder", "called")
  /\ ret # NoRet
  /\ callstack' = Front(callstack)
  /\ ret' = IF ret.kind = "val" THEN Val(Wrap(ret.v)) ELSE ret
  /\ UNCHANGED <<stacks, scopes, susp, mock, log, nextObj, nextAid, required,
                 left,
                 mocks, composes>>

(* ---------------- mockContext ---------------- *)
\* builders handed to mockContext in this model
MockBuilderKinds == {"fresh", "fail"}

\* bookkeeping of one mockContext / mockContext.transient call: count is
\* the number of calls of builder the call itself made, set whether it
\* assigned provider[Mock], v the value assigned, at the number of resolver
\* calls completed before, used the calls of provider[Mock] the resolver
\* made while this assignment was the last one, by the continuation the
\* event loop was running when the call was made
MockCall(c, mode, b, n, isSet, v) ==
  [ctx |-> c, mode |-> mode, builder |-> b, count |-> n, set |-> isSet,
   v |-> v, at |-> Len(log), used |-> 0, by |-> callstack[1].aid]

\* mockContext(provider, builder): provider[Mock] = builder(), the call
SetMock(c, b) ==
  /\ Running("cont", "run")
  /\ left > 0
  /\ callstack' = Append(ReplaceTop([Top EXCEPT !.pc = "mocking", !.ctx = c]),
                         BuilderAct(b, c, 0))
  /\ mocks' = Append(mocks, MockCall(c, "value", b, 1, FALSE, Undefined))
  /\ left' = left - 1
  /\ UNCHANGED <<stacks, scopes, susp, mock, ret, log, nextObj, nextAid,
                 required,
                 composes>>

\* the assignment made only while provider[Mock] is still undefined
SetMockStoreKeepFirst ==
  /\ Running("cont", "mocking")
  /\ ret # NoRet
  /\ mock' = IF ret.kind = "val" /\ mock[Top.ctx] = Undefined
             THEN [mock EXCEPT ![Top.ctx] = ret.v]
             ELSE mock
  /\ mocks' = IF ret.kind = "val"
              THEN [mocks EXCEPT ![Len(mocks)].set = TRUE,
                                 ![Len(mocks)].v = ret.v]
              ELSE mocks
  /\ callstack' = ReplaceTop([Top EXCEPT !.pc = "run", !.ctx = 0])
  /\ ret' = NoRet
  /\ UNCHANGED <<stacks, scopes, susp, log, nextObj, nextAid, required, left,
                 composes>>

\* mockContext(provider, builder): the assignment, skipped when builder threw
SetMockStore ==
  /\ Running("cont", "mocking")
  /\ ret # NoRet
  /\ mock' = IF ret.kind = "val" THEN [mock EXCEPT ![Top.ctx] = ret.v]
             ELSE mock
  /\ mocks' = IF ret.kind = "val"
              THEN [mocks EXCEPT ![Len(mocks)].set = TRUE,
                                 ![Len(mocks)].v = ret.v]
              ELSE mocks
  /\ callstack' = ReplaceTop([Top EXCEPT !.pc = "run", !.ctx = 0])
  /\ ret' = NoRet
  /\ UNCHANGED <<stacks, scopes, susp, log, nextObj, nextAid, required, left,
                 composes>>

\* mockContext.transient(provider, builder): provider[Mock] = builder
SetMockTransient(c, b) ==
  /\ Running("cont", "run")
  /\ left > 0
  /\ mock' = [mock EXCEPT ![c] = Fn(b)]
  /\ mocks' = Append(mocks, MockCall(c, "factory", b, 0, TRUE, Fn(b)))
  /\ left' = left - 1
  /\ UNCHANGED <<stacks, scopes, callstack, susp, ret, log, nextObj, nextAid,
                 required,
                 composes>>

(* ---------------- asynchronous continuations ---------------- *)
\* the running continuation starts another one (a promise callback, a
\* timer): AsyncLocalStorage hands it the current store, the same array
Fork ==
  /\ Running("cont", "run")
  /\ left > 0
  /\ susp' = susp \cup {Cont(nextAid, Top.env, Top.ext, 0)}
  /\ nextAid' = nextAid + 1
  /\ left' = left - 1
  /\ UNCHANGED <<stacks, scopes, callstack, mock, ret, log, nextObj,
                 required,
                 mocks, composes>>

\* the running continuation awaits: it leaves the call stack with its
\* async context, and its caller (if any) goes on with the promise
Suspend ==
  /\ Running("cont", "run")
  /\ left > 0
  /\ susp' = susp \cup {Top}
  /\ callstack' = Front(callstack)
  /\ UNCHANGED <<stacks, scopes, mock, ret, log, nextObj, nextAid, required,
                 left,
                 mocks, composes>>

\* the event loop resumes a suspended continuation in its async context
Resume(a) ==
  /\ callstack = <<>>
  /\ left > 0
  /\ a \in susp
  /\ callstack' = <<a>>
  /\ susp' = susp \ {a}
  /\ UNCHANGED <<stacks, scopes, mock, ret, log, nextObj, nextAid, required,
                 left,
                 mocks, composes>>

(* ---------------- settling and withContexts ---------------- *)
\* what a continuation throws when it fails
ContFailure == Obj(-3)

\* the array a continuation's async context holds for context c
StackOf(act, c) == IF act.env[c] = 0 THEN <<>> ELSE stacks[act.env[c]]

\* providerFn without its `return`
providerFnResultVoid(r) == IF r.kind = "val" THEN Val(Undefined) ELSE r

\* `return storage.run(builderFn, fn)`: the completion of fn is the
\* completion of storage.run, of providerFn and of the provider call
providerFnResult(r) == r

\* the scope record when its provider call completes with fn's completion r
\* in front of the caller
CloseScope(s, r, caller) ==
  [scopes EXCEPT ![s].open = FALSE, ![s].fnres = r,
                 ![s].res = providerFnResult(r),
                 ![s].post = StackOf(caller, scopes[s].ctx)]

\* a scope-establisher, the function provider(builder) or
\* provider.transient(builder) returns
Establisher(c, mode, b) == [ctx |-> c, mode |-> mode, builder |-> b]
withCounter == Establisher(1, "scoped", "fresh")
withCounterTransient == Establisher(1, "transient", "fresh")
withLogger == Establisher(2, "scoped", "fresh")

\* the arrays handed to withContexts in this model
ScopeLists ==
  { <<>>, <<withCounter>>, <<withLogger, withCounter>>,
    <<withCounter, withCounterTransient>>,
    <<withCounter, withLogger, withCounter>> }

\* bookkeeping of one withContexts call made by continuation `by`: its
\* async context, its extents and the number of arrays made, at the call
\* and when fn is called; the scopes its providers established, in order;
\* the runs of fn, with the scopes live then; fn's completion and the
\* completion of the call
ComposeCall(by, list) ==
  [by |-> by.aid, list |-> list, env |-> by.env, ext |-> by.ext,
   heap |-> Len(stacks), entered |-> <<>>, fns |-> <<>>, live |-> {},
   fnenv |-> NoEnv, fnext |-> NoExt, fnheap |-> 0,
   fnres |-> NoRet, res |-> NoRet]

\* the withContexts call whose fn is the continuation a
ComposeOfFn(a) ==
  CHOOSE k \in DOMAIN composes : a \in Range(composes[k].fns)

\* the withContexts call the continuation a is waiting for
ComposeBy(a) ==
  CHOOSE k \in DOMAIN composes :
    composes[k].by = a /\ composes[k].res = NoRet

\* a continuation fn completes, returning a new object or throwing:
\* the fn of a provider call completes that call in front of its caller,
\* the fn of withContexts hands its completion to execute
Settle(ok) ==
  /\ Running("cont", "run")
  /\ Len(callstack) >= 2
  /\ left > 0
  /\ LET r == IF ok THEN Val(Obj(nextObj)) ELSE Err(ContFailure) IN
     /\ nextObj' = IF ok THEN nextObj + 1 ELSE nextObj
     /\ callstack' = Front(callstack)
     /\ IF Top.scope # 0
        THEN /\ scopes' = CloseScope(Top.scope, r, Caller)
             /\ UNCHANGED <<ret, composes>>
        ELSE /\ ret' = r
             /\ composes' =
                  [composes EXCEPT ![ComposeOfFn(Top.aid)].fnres = r]
             /\ scopes' = scopes
  /\ UNCHANGED <<stacks, susp, mock, log, nextAid, required, left, mocks>>

\* withContexts(contexts, fn): execute(fn)
WithContexts(list) ==
  /\ Running("cont", "run")
  /\ left > 0
  /\ callstack' = ReplaceTop([Top EXCEPT !.pc = "execute", !.rest = list])
  /\ composes' = Append(composes, ComposeCall(Top, list))
  /\ left' = left - 1
  /\ UNCHANGED <<stacks, scopes, susp, mock, ret, log, nextObj, nextAid,
                 required, mocks>>

\* the array taken from its end
ExecuteSplitLast(contexts) ==
  [provider |-> Last(contexts), rest |-> Front(contexts)]

\* execute: const [provider, ...rest] = contexts
ExecuteSplit(contexts) == [provider |-> Head(contexts), rest |-> Tail(contexts)]

\* execute: return provider(() => withContexts(rest, fn)), provider being
\* a providerFn, which runs the arrow function as its fn
ExecuteProvider ==
  /\ Running("cont", "execute")
  /\ Top.rest # <<>>
  /\ LET e == ExecuteSplit(Top.rest).provider
         s == Len(scopes) + 1
         r == run(e.ctx, s)
     IN /\ scopes' = Append(scopes,
                            NewScope(e.ctx, e.mode, e.builder, Top.aid))
        /\ stacks' = r.stacks
        /\ callstack' =
             Append(ReplaceTop([Top EXCEPT !.pc = "composed"]),
                    [Cont(nextAid, [Top.env EXCEPT ![e.ctx] = r.store],
                          [Top.ext EXCEPT ![e.ctx] = Append(@, s)], s)
                       EXCEPT !.pc = "execute",
                              !.rest = ExecuteSplit(Top.rest).rest,
                              !.b = "arrow"])
        /\ composes' =
             [composes EXCEPT ![Len(composes)].entered = Append(@, s)]
  /\ nextAid' = nextAid + 1
  /\ UNCHANGED <<susp, mock, ret, log, nextObj, required, left, mocks>>

\* `if (!provider) return;`: fn not called
ExecuteFnDropped ==
  /\ Running("cont", "execute")
  /\ Top.rest = <<>>
  /\ callstack' = ReplaceTop([Top EXCEPT !.pc = "composed"])
  /\ ret' = Val(Undefined)
  /\ UNCHANGED <<stacks, scopes, susp, mock, log, nextObj, nextAid, required,
                 left, mocks, composes>>

\* execute: if (!provider) return fn()
ExecuteFn ==
  /\ Running("cont", "execute")
  /\ Top.rest = <<>>
  /\ callstack' = Append(ReplaceTop([Top EXCEPT !.pc = "composed"]),
                         Cont(nextAid, Top.env, Top.ext, 0))
  /\ composes' =
       [composes EXCEPT
          ![Len(composes)].fns = Append(@, nextAid),
          ![Len(composes)].live = {s \in DOMAIN scopes : scopes[s].open},
          ![Len(composes)].fnenv = Top.env,
          ![Len(composes)].fnext = Top.ext,
          ![Len(composes)].fnheap = Len(stacks)]
  /\ nextAid' = nextAid + 1
  /\ UNCHANGED <<stacks, scopes, susp, mock, ret, log, nextObj, required,
                 left, mocks>>

\* the arrow function returns what withContexts(rest, fn) completed with,
\* and with it storage.run, providerFn and the provider call
ArrowReturn ==
  /\ Running("cont", "composed")
  /\ Top.b = "arrow"
  /\ ret # NoRet
  /\ callstack' = Front(callstack)
  /\ scopes' = CloseScope(Top.scope, ret, Caller)
  /\ ret' = providerFnResult(ret)
  /\ UNCHANGED <<stacks, susp, mock, log, nextObj, nextAid, required, left,
                 mocks, composes>>

\* the continuation that called withContexts gets the completion
WithContextsReturn ==
  /\ Running("cont", "composed")
  /\ Top.b # "arrow"
  /\ ret # NoRet
  /\ callstack' = ReplaceTop([Top EXCEPT !.pc = "run", !.rest = <<>>])
  /\ composes' = [composes EXCEPT ![ComposeBy(Top.aid)].res = ret]
  /\ ret' = NoRet
  /\ UNCHANGED <<stacks, scopes, susp, mock, log, nextObj, nextAid, required,
                 left, mocks>>

(* ---------------- specifications ---------------- *)
\* the steps of a resolver call, whoever made it
ResolverSteps ==
  \/ ResolverEmpty
  \/ ResolverCall
  \/ ResolverReturn
  \/ ContReceive
  \/ BuilderFnEnter
  \/ BuilderFnReturn
  \/ BuilderRun
  \/ BuilderResolve
  \/ BuilderWrap

\* one continuation running to completion: nested scopes of one context
\* whose builders return
CoreBuilderKinds == {"fresh", "self"}

Next ==
  \/ \E m \in Modes, b \in CoreBuilderKinds : Provide(1, m, b)
  \/ Return
  \/ Resolve(1)
  \/ ResolverSteps

Spec == Init /\ [][Next]_vars

\* the same continuation with the calls that nesting scopes three deep and
\* resolving once takes
SpecNest == InitNest /\ [][Next]_vars

\* the same with mockContext
NextMock ==
  \/ \E m \in Modes, b \in BuilderKinds : Provide(1, m, b)
  \/ Return
  \/ Resolve(1)
  \/ ResolverSteps
  \/ \E b \in MockBuilderKinds : SetMock(1, b)
  \/ SetMockStore
  \/ \E b \in MockBuilderKinds : SetMockTransient(1, b)

SpecMock == InitMock /\ [][NextMock]_vars

\* concurrent continuations interleaved at their awaits
NextAsync ==
  \/ \E m \in Modes : Provide(1, m, "fresh")
  \/ Return
  \/ Resolve(1)
  \/ ResolverEmpty
  \/ ResolverCall
  \/ ResolverReturn
  \/ ContReceive
  \/ BuilderFnEnter
  \/ BuilderFnReturn
  \/ BuilderRun
  \/ Fork
  \/ Suspend
  \/ \E a \in susp : Resume(a)

SpecAsync == InitAsync /\ [][NextAsync]_vars

\* mockContext and mockContext.transient with builders of every kind of
\* value, next to scopes whose builders return
SlotBuilderKinds == {"fresh", "fail", "fn"}

NextSlot ==
  \/ \E m \in Modes : Provide(1, m, "fresh")
  \/ Return
  \/ Resolve(1)
  \/ ResolverEmpty
  \/ ResolverCall
  \/ ResolverReturn
  \/ ContReceive
  \/ BuilderFnEnter
  \/ BuilderFnReturn
  \/ BuilderRun
  \/ \E b \in SlotBuilderKinds : SetMock(1, b)
  \/ SetMockStore
  \/ \E b \in SlotBuilderKinds : SetMockTransient(1, b)

SpecSlot == InitSlot /\ [][NextSlot]_vars

\* withContexts and provider calls whose continuations complete, over two
\* contexts
NextCompose ==
  \/ \E l \in ScopeLists : WithContexts(l)
  \/ ExecuteProvider
  \/ ExecuteFn
  \/ ArrowReturn
  \/ WithContextsReturn
  \/ \E ok \in BOOLEAN : Settle(ok)
  \/ \E m \in Modes : Provide(1, m, "fresh")
  \/ \E c \in Contexts : Resolve(c)
  \/ ResolverEmpty
  \/ ResolverCall
  \/ ResolverReturn
  \/ ContReceive
  \/ BuilderFnEnter
  \/ BuilderFnReturn
  \/ BuilderRun

SpecCompose == InitCompose /\ [][NextCompose]_vars

\* scoped scopes and mocks of two contexts, one continuation running to
\* completion
NextPair ==
  \/ \E c \in Contexts : Provide(c, "scoped", "fresh")
  \/ Return
  \/ \E c \in Contexts : Resolve(c)
  \/ ResolverEmpty
  \/ ResolverCall
  \/ ResolverReturn
  \/ ContReceive
  \/ BuilderFnEnter
  \/ BuilderFnReturn
  \/ BuilderRun
  \/ \E c \in Contexts : SetMock(c, "fresh")
  \/ SetMockStore

SpecPair == InitPair /\ [][NextPair]_vars

\* mockContext calls made by concurrent continuations interleaved at their
\* awaits, next to scopes
NextShared ==
  \/ Provide(1, "scoped", "fresh")
  \/ Return
  \/ Resolve(1)
  \/ ResolverEmpty
  \/ ResolverCall
  \/ ResolverReturn
  \/ ContReceive
  \/ BuilderFnEnter
  \/ BuilderFnReturn
  \/ BuilderRun
  \/ \E b \in MockBuilderKinds : SetMock(1, b)
  \/ SetMockStore
  \/ \E b \in MockBuilderKinds : SetMockTransient(1, b)
  \/ Fork
  \/ Suspend
  \/ \E a \in susp : Resume(a)

SpecShared == InitShared /\ [][NextShared]_vars

\* mockContext with builders that return an object or undefined, for a
\* required and for an optional context, next to scopes
UnsetBuilderKinds == {"fresh", "undef"}

NextUnset ==
  \/ \E m \in Modes : Provide(1, m, "fresh")
  \/ Return
  \/ Resolve(1)
  \/ ResolverEmpty
  \/ ResolverCall
  \/ ResolverReturn
  \/ ContReceive
  \/ BuilderFnEnter
  \/ BuilderFnReturn
  \/ BuilderRun
  \/ \E b \in UnsetBuilderKinds : SetMock(1, b)
  \/ SetMockStore

SpecUnset == InitUnset /\ [][NextUnset]_vars

(* ================= properties ================= *)
\* resolver calls made by continuations (not from inside a builder)
ContEntries == {i \in DOMAIN log : log[i].by = "cont"}

\* ... made directly inside scope s: s is the innermost scope around them
Inside(s) ==
  {i \in ContEntries : log[i].ext # <<>> /\ Last(log[i].ext) = s}

\* completed resolver calls that called the frame of scope s
Served(s) == {i \in DOMAIN log : log[i].src = "frame" /\ log[i].item = s}

\* resolver calls now waiting for the frame of scope s to return
InFlight(s) ==
  {k \in DOMAIN callstack : /\ callstack[k].kind = "resolver"
                            /\ callstack[k].pc = "called"
                            /\ callstack[k].item = s}

IsScoped(s) == scopes[s].mode = "scoped"
IsVal(i) == log[i].res.kind = "val"

\* C1: in one scoped scope whose builder returns a fresh object, all the
\* resolves made inside it (k >= 1) return one and the same instance and
\* the builder has been invoked exactly once.
C1_ScopedOnce ==
  \A s \in DOMAIN scopes :
    (IsScoped(s) /\ scopes[s].builder = "fresh" /\ Inside(s) # {}) =>
      /\ scopes[s].count = 1
      /\ \A i, j \in Inside(s) : IsVal(i) /\ log[i].res = log[j].res

\* three resolves inside one scoped scope with a fresh builder
C1_Witness ==
  \E s \in DOMAIN scopes :
    /\ IsScoped(s) /\ scopes[s].builder = "fresh"
    /\ Cardinality(Inside(s)) >= 3

\* C2: in a transient scope every resolve made directly inside it is served
\* by its frame, the builder has been invoked once per resolve its frame
\* served (so N times when those N resolves are the only ones), and with a
\* fresh builder no two resolves return the same instance.
C2_TransientPerResolve ==
  \A s \in DOMAIN scopes :
    ~IsScoped(s) =>
      /\ Inside(s) \subseteq Served(s)
      /\ scopes[s].count = Cardinality(Served(s)) + Cardinality(InFlight(s))
      /\ scopes[s].builder = "fresh" =>
           \A i, j \in Served(s) :
             IsVal(i) /\ (i # j => log[i].res # log[j].res)

\* three resolves inside one transient scope, three invocations
C2_Witness ==
  \E s \in DOMAIN scopes :
    /\ ~IsScoped(s) /\ scopes[s].builder = "fresh"
    /\ Cardinality(Inside(s)) >= 3
    /\ Served(s) = Inside(s)
    /\ scopes[s].count = Cardinality(Inside(s))

\* entry k was made in a scope nested (for the same context) inside the
\* scope entry i was made in
NestedIn(k, i) ==
  /\ Len(log[k].ext) > Len(log[i].ext)
  /\ SubSeq(log[k].ext, 1, Len(log[i].ext)) = log[i].ext

\* C3: a resolve made by a continuation is served by the frame of the
\* innermost scope around it, whatever the modes; and when scope A is
\* scoped, a resolve in A made after resolves in a scope nested in A returns
\* the instance A returned before.
C3_Shadowing ==
  /\ \A i \in ContEntries :
       log[i].ext # <<>> =>
         log[i].src = "frame" /\ log[i].item = Last(log[i].ext)
  /\ \A i, k, j \in ContEntries :
       ( /\ i < k /\ k < j
         /\ log[i].ext # <<>> /\ log[j].ext = log[i].ext
         /\ IsScoped(Last(log[i].ext))
         /\ NestedIn(k, i)
         /\ IsVal(i) ) => log[j].res = log[i].res

\* resolve in A, resolve in B nested in A, B's fn has returned, resolve in A
C3_Witness ==
  \E i, k, j \in ContEntries :
    /\ i < k /\ k < j
    /\ log[i].ext # <<>> /\ log[j].ext = log[i].ext
    /\ IsScoped(Last(log[i].ext))
    /\ NestedIn(k, i)
    /\ Last(log[k].ext) \notin log[j].live
    /\ IsVal(i) /\ IsVal(k) /\ log[k].res # log[i].res

\* the place of scope s in the list of scopes e
Place(s, e) == CHOOSE q \in DOMAIN e : e[q] = s

\* resolver calls made by the builder of scope s
ByBuilderOf(s) == {i \in DOMAIN log : log[i].by = "builder" /\ log[i].of = s}

\* C4: a resolve made by the builder of scope B is never served by B's own
\* frame but by the next-outer one (none when B is outermost); a resolve
\* inside B, B's builder being () => f(resolve()), yields f(v1) for the v1
\* that builder got; and the resolves made directly in a scoped outer scope
\* yield that same v1.
C4_SelfReferential ==
  /\ \A i \in DOMAIN log :
       (log[i].by = "builder" /\ log[i].of # 0) =>
         LET p == Place(log[i].of, log[i].ext) IN
           /\ log[i].item # log[i].of
           /\ log[i].item = IF p = 1 THEN 0 ELSE log[i].ext[p - 1]
  /\ \A i \in ContEntries :
       ( /\ log[i].ext # <<>>
         /\ scopes[Last(log[i].ext)].builder = "self"
         /\ IsVal(i) ) =>
         \E j \in ByBuilderOf(Last(log[i].ext)) :
           j < i /\ IsVal(j) /\ log[i].res.v = Wrap(log[j].res.v)
  /\ \A j \in DOMAIN log :
       (log[j].by = "builder" /\ log[j].src = "frame"
          /\ IsScoped(log[j].item) /\ IsVal(j)) =>
         \A k \in Inside(log[j].item) : log[k].res = log[j].res

\* outer scoped scope A gives v1, inner scope B's builder wraps what it
\* resolves: a resolve in B gave f(v1), and after B's fn returned a resolve
\* in A gave v1
C4_Witness ==
  \E i, k \in ContEntries :
    /\ i < k
    /\ Len(log[i].ext) >= 2
    /\ scopes[Last(log[i].ext)].builder = "self"
    /\ log[k].ext = Front(log[i].ext)
    /\ IsScoped(Last(log[k].ext))
    /\ Last(log[i].ext) \notin log[k].live
    /\ IsVal(k) /\ IsVal(i)
    /\ log[i].res.v = Wrap(log[k].res.v)

\* C5: a resolve made by a continuation is never served by the frame of a
\* scope it is not inside, and never returns an instance such a scope has
\* served; it is served by the innermost scope it is inside, whatever the
\* other continuations established in the meantime.
C5_BranchIsolation ==
  \A i \in ContEntries :
    /\ log[i].ext # <<>> => log[i].item = Last(log[i].ext)
    /\ \A x \in DOMAIN scopes :
         x \notin Range(log[i].ext) =>
           /\ log[i].item # x
           /\ \A k \in Served(x) : IsVal(k) => log[i].res # log[k].res

\* inside scope base, one continuation established scope x; another
\* continuation resolved base while x was live; and the continuation that
\* established x resolved base after x's fn had returned
C5_Witness ==
  \E x \in DOMAIN scopes : \E i, j \in ContEntries :
    /\ scopes[x].outer # <<>>
    /\ log[i].ext = scopes[x].outer
    /\ x \in log[i].live
    /\ log[i].aid \notin {scopes[x].by, scopes[x].cont}
    /\ log[i].item = Last(scopes[x].outer)
    /\ i < j
    /\ log[j].aid = scopes[x].by
    /\ x \notin log[j].live
    /\ log[j].item = Last(scopes[x].outer)

\* C6: a resolve made by a continuation the event loop resumed (depth 1:
\* its caller, the provider call included, is gone from the call stack) is
\* served by the frame of its own innermost scope, the same frame as every
\* earlier resolve of that continuation, and for a scoped scope it returns
\* the same instance as those.
C6_AcrossSuspension ==
  \A j \in ContEntries :
    log[j].depth = 1 =>
      /\ log[j].ext # <<>> =>
           log[j].src = "frame" /\ log[j].item = Last(log[j].ext)
      /\ \A i \in ContEntries :
           (i < j /\ log[i].aid = log[j].aid) =>
             /\ log[i].item = log[j].item
             /\ (log[j].item # 0 /\ IsScoped(log[j].item)) =>
                  log[i].res = log[j].res

\* the fn of a scoped scope resolved before its provider call returned, then
\* another continuation resolved, then the fn, resumed, resolved again
C6_Witness ==
  \E s \in DOMAIN scopes : \E i, k, j \in ContEntries :
    /\ IsScoped(s)
    /\ i < k /\ k < j
    /\ log[i].aid = scopes[s].cont /\ log[i].depth >= 2
    /\ log[k].aid # scopes[s].cont
    /\ log[j].aid = scopes[s].cont /\ log[j].depth = 1
    /\ IsVal(j) /\ log[j].item = s

\* C7: a resolver call of a required context that finds no frame (stack
\* empty) while provider[Mock] is undefined throws ContextNotProvided.
C7_RequiredThrows ==
  \A i \in DOMAIN log :
    (log[i].item = 0 /\ log[i].src = "none" /\ required[log[i].ctx]) =>
      log[i].res = Err(ContextNotProvided)

\* a continuation outside every scope resolved a required context
C7_Witness ==
  \E i \in ContEntries :
    /\ log[i].ext = <<>> /\ log[i].src = "none" /\ required[log[i].ctx]
    /\ log[i].res = Err(ContextNotProvided)

\* C8: a resolver call of a context made with required: false that finds no
\* frame while provider[Mock] is undefined returns undefined.
C8_OptionalUndefined ==
  \A i \in DOMAIN log :
    (log[i].item = 0 /\ log[i].src = "none" /\ ~required[log[i].ctx]) =>
      log[i].res = Val(Undefined)

\* a continuation outside every scope resolved an optional context
C8_Witness ==
  \E i \in ContEntries :
    /\ log[i].ext = <<>> /\ log[i].src = "none" /\ ~required[log[i].ctx]
    /\ log[i].res = Val(Undefined)

\* C9: a scope's builder has not been invoked, and its cache is not
\* initialized, as long as no resolver call has called its frame: not by
\* establishing the scope, and never if fn does not resolve.
C9_Lazy ==
  \A s \in DOMAIN scopes :
    (Served(s) = {} /\ InFlight(s) = {}) =>
      scopes[s].count = 0 /\ ~scopes[s].initialized

\* a scoped and a transient scope whose fn returned without resolving, and
\* a scope whose builder ran on a resolve
C9_Witness ==
  \E s, t, u \in DOMAIN scopes :
    /\ IsScoped(s) /\ ~scopes[s].open /\ scopes[s].count = 0
    /\ ~IsScoped(t) /\ ~scopes[t].open /\ scopes[t].count = 0
    /\ scopes[u].count = 1 /\ Served(u) # {}

\* C10 as stated: no resolver call made in the extent of an active scope,
\* by a continuation or by a builder, is served by provider[Mock].
C10_MockNeverInScope ==
  \A i \in DOMAIN log : log[i].src = "mock" => log[i].ext = <<>>

\* C10 amended: a resolver call made by a continuation inside a scope, or
\* by the builder of a scope that is not the outermost one, is served by a
\* frame whether or not provider[Mock] is set; provider[Mock] serves only
\* calls that find the stack empty: outside every scope, or from the
\* builder of the outermost scope, whose frame is removed while it runs.
C10_MockFallbackOnly ==
  \A i \in DOMAIN log :
    /\ (log[i].by = "cont" /\ log[i].ext # <<>>) => log[i].src = "frame"
    /\ (log[i].by = "builder" /\ log[i].of # 0
          /\ log[i].of # log[i].ext[1]) => log[i].src = "frame"
    /\ log[i].src = "mock" =>
         /\ log[i].item = 0
         /\ \/ log[i].ext = <<>>
            \/ log[i].by = "builder" /\ log[i].of = log[i].ext[1]

\* with provider[Mock] set, the builder of the only scope resolved and got
\* the mock, and the continuation's resolve was served by the frame
C10_Witness ==
  \E i, j \in DOMAIN log :
    /\ i < j
    /\ log[i].src = "mock" /\ log[i].ext # <<>> /\ log[i].by = "builder"
    /\ log[j].by = "cont" /\ log[j].ext # <<>> /\ log[j].src = "frame"

\* resolver calls that found the stack empty and completed while the
\* assignment made by mockContext call k was the last one for its context
UnderMock(k) ==
  {i \in DOMAIN log :
     /\ i > mocks[k].at /\ log[i].ctx = mocks[k].ctx /\ log[i].item = 0
     /\ \A j \in DOMAIN mocks :
          (j > k /\ mocks[j].ctx = mocks[k].ctx /\ mocks[j].set) =>
            i <= mocks[j].at}

\* C11: a mockContext(provider, builder) call has called builder exactly
\* once; once it has assigned provider[Mock], every resolver call that finds
\* the stack empty returns the value builder returned and the resolver
\* calls nothing to get it, whether that value is an object or a function.
C11_SetMockStoresValue ==
  \A k \in DOMAIN mocks :
    mocks[k].mode = "value" =>
      /\ mocks[k].count = 1
      /\ mocks[k].set =>
           /\ mocks[k].used = 0
           /\ \A i \in UnderMock(k) : log[i].res = Val(mocks[k].v)

\* resolver calls now waiting for provider[Mock]() of context c to return
MockInFlight(c) ==
  {q \in DOMAIN callstack : /\ callstack[q].kind = "resolver"
                            /\ callstack[q].pc = "mockcall"
                            /\ callstack[q].ctx = c}

\* what one invocation of a builder of kind b that resolves nothing yields
\* (the identity of a fresh object aside)
Yields(b, r) ==
  CASE b = "fresh" -> r.kind = "val" /\ r.v.t = "object" /\ r.v.n > 0
    [] b = "fn" -> r = Val(Fn("fresh"))
    [] b = "fail" -> r = Err(BuilderFailure)

\* C12: a mockContext.transient(provider, builder) call does not call
\* builder; afterwards the resolver has called it once for every resolver
\* call that found the stack empty (N calls for N resolves), each resolve
\* completes with what that invocation yielded, and with a builder making a
\* new object no two resolves get the same one.
C12_TransientMockPerResolve ==
  \A k \in DOMAIN mocks :
    mocks[k].mode = "factory" =>
      /\ mocks[k].count = 0
      /\ mocks[k].used =
           Cardinality(UnderMock(k))
           + (IF k = CurMock(mocks[k].ctx)
              THEN Cardinality(MockInFlight(mocks[k].ctx)) ELSE 0)
      /\ \A i \in UnderMock(k) : Yields(mocks[k].builder, log[i].res)
      /\ mocks[k].builder = "fresh" =>
           \A i, j \in UnderMock(k) : i # j => log[i].res # log[j].res

\* three resolves with an empty stack after mockContext.transient with a
\* builder making a new object: three invocations, three objects
C12_Witness ==
  \E k \in DOMAIN mocks :
    /\ mocks[k].mode = "factory" /\ mocks[k].builder = "fresh"
    /\ Cardinality(UnderMock(k)) = 3
    /\ mocks[k].used = 3
    /\ Cardinality({log[i].res : i \in UnderMock(k)}) = 3

\* the scopes of list e that are scopes of context c, in the order of e
OfCtx(e, c) == SelectSeq(e, LAMBDA s : scopes[s].ctx = c)

\* resolver calls made by the fn of withContexts call k
InFn(k) == {i \in ContEntries : log[i].aid \in Range(composes[k].fns)}

\* C13: withContexts([s1, ..., sn], fn) calls every scope-establisher once,
\* s1 first, each next one from inside the scope of the one before, and
\* then fn, once, while the n scopes are live, fn running in the caller's
\* scopes extended by them in that order; the call completes with fn's
\* completion; and fn's resolve of a context is served by the scope of the
\* last element that provides it.
C13_ComposeOrder ==
  \A k \in DOMAIN composes :
    LET L == composes[k].list
        e == composes[k].entered
    IN /\ Len(e) <= Len(L)
       /\ \A i \in DOMAIN e :
            /\ Establisher(scopes[e[i]].ctx, scopes[e[i]].mode,
                           scopes[e[i]].builder) = L[i]
            /\ scopes[e[i]].by =
                 IF i = 1 THEN composes[k].by ELSE scopes[e[i - 1]].cont
            /\ \A j \in DOMAIN e : i < j => e[i] < e[j]
       /\ Len(composes[k].fns) <= 1
       /\ composes[k].fns # <<>> =>
            /\ Len(e) = Len(L)
            /\ Range(e) \subseteq composes[k].live
            /\ \A c \in Contexts :
                 composes[k].fnext[c] = composes[k].ext[c] \o OfCtx(e, c)
       /\ composes[k].res # NoRet =>
            /\ Len(composes[k].fns) = 1
            /\ composes[k].res = composes[k].fnres
       /\ \A i \in InFn(k) :
            OfCtx(e, log[i].ctx) # <<>> =>
              /\ log[i].src = "frame"
              /\ log[i].item = Last(OfCtx(e, log[i].ctx))

\* a withContexts call with three elements, two of them providing the same
\* context, completed with what fn returned, fn having resolved that context
C13_Witness ==
  \E k \in DOMAIN composes : \E i \in InFn(k) :
    /\ Len(composes[k].list) = 3
    /\ Len(OfCtx(composes[k].entered, log[i].ctx)) = 2
    /\ log[i].item = composes[k].entered[3]
    /\ composes[k].res.kind = "val"
    /\ composes[k].res = composes[k].fnres

\* C14: withContexts([], fn) establishes no scope and makes no array: fn is
\* called once, in the caller's async context and extents, and the call
\* completes with fn's completion.
C14_EmptyIsIdentity ==
  \A k \in DOMAIN composes :
    composes[k].list = <<>> =>
      /\ composes[k].entered = <<>>
      /\ Len(composes[k].fns) <= 1
      /\ composes[k].fns # <<>> =>
           /\ composes[k].fnenv = composes[k].env
           /\ composes[k].fnext = composes[k].ext
           /\ composes[k].fnheap = composes[k].heap
      /\ composes[k].res # NoRet =>
           /\ Len(composes[k].fns) = 1
           /\ composes[k].res = composes[k].fnres

\* inside a scope, withContexts([], fn) called fn in that scope and
\* completed with what fn returned
C14_Witness ==
  \E k \in DOMAIN composes :
    /\ composes[k].list = <<>>
    /\ composes[k].res.kind = "val"
    /\ composes[k].res = composes[k].fnres
    /\ \E c \in Contexts :
         composes[k].ext[c] # <<>> /\ composes[k].fnext[c] = composes[k].ext[c]

\* two invocations of one curried function provider(builder), or of
\* provider(builder, fn) with the same builder
SameEstablisher(s, u) ==
  /\ s # u
  /\ scopes[s].ctx = scopes[u].ctx
  /\ scopes[s].mode = scopes[u].mode
  /\ scopes[s].builder = scopes[u].builder

\* C15: every providerFn invocation has its own cache: a scoped scope
\* whose frame was called has called its builder exactly once, whatever
\* other invocations of the same curried function did before, and with a
\* builder making a new object no resolve served by one scoped scope
\* returns what a resolve served by another returned, nor what the other
\* has cached.
C15_CurriedReuse ==
  \A s \in DOMAIN scopes :
    IsScoped(s) =>
      /\ Served(s) # {} => scopes[s].count = 1
      /\ scopes[s].builder = "fresh" =>
           \A u \in DOMAIN scopes :
             (IsScoped(u) /\ SameEstablisher(s, u)) =>
               /\ (scopes[s].initialized /\ scopes[u].initialized) =>
                    scopes[s].cache # scopes[u].cache
               /\ \A i \in Served(s), j \in Served(u) :
                    IsVal(i) /\ log[i].res # log[j].res
               /\ \A i \in Served(s) :
                    scopes[u].initialized => log[i].res.v # scopes[u].cache

\* C16: a resolver call whose frame's builder throws completes with that
\* very error (the builder's own, or the one its nested resolve threw), its
\* array holds afterwards what it held before, and every later resolve the
\* same continuation makes in the same scope is served by the same frame.
C16_BuilderFailure ==
  \A i \in DOMAIN log :
    (log[i].src = "frame" /\ log[i].res.kind = "err") =>
      /\ scopes[log[i].item].builder = "fail" =>
           log[i].res = Err(BuilderFailure)
      /\ scopes[log[i].item].builder = "self" =>
           \E k \in ByBuilderOf(log[i].item) :
             k < i /\ log[k].res = log[i].res
      /\ log[i].post = log[i].pre
      /\ \A j \in ContEntries :
           (i < j /\ log[i].by = "cont" /\ log[j].aid = log[i].aid
              /\ log[j].ctx = log[i].ctx) =>
             log[j].src = "frame" /\ log[j].item = log[i].item

\* where an outer frame or provider[Mock] could have served instead, a
\* resolve failed with the builder's error and the next resolve in the scope
\* was served by the same frame
C16_Witness ==
  \E i, j \in ContEntries :
    /\ i < j /\ log[j].aid = log[i].aid
    /\ log[i].src = "frame" /\ log[i].res = Err(BuilderFailure)
    /\ log[j].src = "frame" /\ log[j].item = log[i].item
    /\ Len(log[i].ext) >= 2 \/ mock[log[i].ctx] # Undefined

\* C17: the frame of a scope is never on the array of the continuation
\* that called the provider; and when the provider call has completed, fn
\* having returned or thrown, the caller's stack holds exactly what it held
\* before the call and the call completed with fn's completion.
C17_ScopeExit ==
  \A s \in DOMAIN scopes :
    /\ scopes[s].from # 0 => s \notin Range(stacks[scopes[s].from])
    /\ ~scopes[s].open =>
         /\ scopes[s].post = scopes[s].pre
         /\ scopes[s].res = scopes[s].fnres

\* inside a scope, a provider call whose fn returned a value, and a
\* provider call whose fn threw
C17_Witness ==
  \E s, u \in DOMAIN scopes :
    /\ ~scopes[s].open /\ scopes[s].res.kind = "val"
    /\ scopes[s].pre # <<>> /\ scopes[s].post = scopes[s].pre
    /\ ~scopes[u].open /\ scopes[u].res = Err(ContFailure)

\* C18: in a scoped scope the builder has been invoked at most once,
\* whether it returned or threw, and a populated cache holds what the first
\* resolver call that called the frame completed with.
C18_AtMostOnce ==
  \A s \in DOMAIN scopes :
    IsScoped(s) =>
      /\ scopes[s].count <= 1
      /\ scopes[s].initialized =>
           \A i \in Served(s) :
             (\A j \in Served(s) : i <= j) =>
               log[i].res = Val(scopes[s].cache)

\* the resolver call that called the frame whose builder made call k
Enclosing(k) ==
  CHOOSE i \in DOMAIN log :
    /\ i > k /\ log[i].src = "frame" /\ log[i].item = log[k].of
    /\ \A j \in DOMAIN log :
         (j > k /\ log[j].src = "frame" /\ log[j].item = log[k].of) => i <= j

\* C19: when a resolver call completes, its array holds the frames it held
\* when the call was made, in the same order; a continuation's call finds
\* the frames of its scopes, outermost first; a call made by a builder
\* finds the array without the frame its enclosing call removed, completes
\* before that call does, and the enclosing call then restores its frame
\* on top: removals are undone in reverse order, at every depth.
C19_PopRestoreNeutral ==
  /\ \A i \in DOMAIN log : log[i].post = log[i].pre
  /\ \A i \in ContEntries : log[i].pre = log[i].ext
  /\ \A k \in DOMAIN log :
       (log[k].by = "builder" /\ log[k].of # 0) =>
         \/ \E q \in DOMAIN callstack :
              /\ callstack[q].kind = "resolver" /\ callstack[q].pc = "called"
              /\ callstack[q].item = log[k].of
              /\ log[k].pre = Front(callstack[q].pre)
         \/ /\ \E i \in DOMAIN log :
                 i > k /\ log[i].src = "frame" /\ log[i].item = log[k].of
            /\ log[k].pre = Front(log[Enclosing(k)].pre)
            /\ log[Enclosing(k)].pre = log[k].pre \o <<log[k].of>>

\* three nested scopes, the builders of the inner two resolving the
\* context: a resolve in the innermost removed and restored three frames
C19_Witness ==
  \E i \in ContEntries : \E k, q \in DOMAIN log :
    /\ q < k /\ k < i
    /\ Len(log[i].pre) = 3 /\ log[i].post = log[i].pre
    /\ log[k].by = "builder" /\ log[k].of = log[i].item
    /\ log[k].pre = Front(log[i].pre) /\ log[k].item # 0
    /\ log[q].by = "builder" /\ log[q].of = log[k].item
    /\ log[q].pre = Front(log[k].pre) /\ log[q].item # 0
    /\ IsVal(i)

\* the continuations that exist: suspended, or on the call stack
Branches == susp \cup {callstack[q] : q \in {p \in DOMAIN callstack :
                                               callstack[p].kind = "cont"}}

\* a state in which a continuation other than the running one may take the
\* next step: the call stack is empty, or the running continuation is
\* between two calls and may await
SuspensionPoint == callstack = <<>> \/ Running("cont", "run")

\* C20: at every suspension point no resolver call is in progress, and the
\* array of every continuation, for every context, holds exactly the frames
\* of the scopes the continuation runs in, outermost first, also for the
\* continuations that share one array.
C20_RemovalIsSynchronous ==
  SuspensionPoint =>
    /\ \A q \in DOMAIN callstack : callstack[q].kind = "cont"
    /\ \A a \in Branches : \A c \in Contexts : StackOf(a, c) = a.ext[c]

\* the event loop is idle; two suspended continuations share the array of
\* one scope, and both have resolved through it
C20_Witness ==
  /\ callstack = <<>>
  /\ \E a, b \in susp : \E i, j \in ContEntries :
       /\ a.aid # b.aid
       /\ a.env[1] # 0 /\ a.env[1] = b.env[1]
       /\ log[i].aid = a.aid /\ log[j].aid = b.aid
       /\ log[i].item # 0 /\ log[j].item = log[i].item

\* C21: the builder of a scoped scope has been invoked at most once,
\* whoever resolved first (the scope's continuation, a continuation forked
\* in it, the builder of an inner scope), and all the resolver calls its
\* frame served completed alike, with the same instance.
C21_OneCachePerScope ==
  \A s \in DOMAIN scopes :
    IsScoped(s) =>
      /\ scopes[s].count <= 1
      /\ \A i, j \in Served(s) : log[i].res = log[j].res

\* the calls of builders of scopes now on the call stack
ActiveBuilders ==
  {q \in DOMAIN callstack :
     callstack[q].kind = "builder" /\ callstack[q].scope # 0}

\* the resolver calls made by builders in the course of the continuation's
\* resolver call i
NestedCalls(i) ==
  {k \in DOMAIN log :
     /\ k < i /\ log[k].by = "builder"
     /\ \A j \in ContEntries : j < i => j < k}

\* C22: no builder is active twice at the same time; a resolver call made
\* while others are in progress finds a strictly shorter array than each of
\* them; and when a continuation's resolve in n nested scopes has
\* completed, the builders invoked in its course made at most n resolver
\* calls, each builder at most one, the builder of the scope at level k
\* being served by the frame of level k - 1 (none for k = 1).
C22_NoSelfRecursion ==
  /\ \A p, q \in ActiveBuilders :
       p # q => callstack[p].scope # callstack[q].scope
  /\ \A p, q \in DOMAIN callstack :
       (p < q /\ callstack[p].kind = "resolver"
              /\ callstack[q].kind = "resolver"
              /\ \A m \in p..q : callstack[m].kind # "cont") =>
         Len(callstack[q].pre) < Len(callstack[p].pre)
  /\ \A i \in ContEntries :
       /\ Cardinality(NestedCalls(i)) <= Len(log[i].ext)
       /\ \A k \in NestedCalls(i) :
            /\ log[k].of \in Range(log[i].ext)
            /\ \A m \in NestedCalls(i) : m # k => log[m].of # log[k].of
            /\ LET p == Place(log[k].of, log[i].ext) IN
                 log[k].item = IF p = 1 THEN 0 ELSE log[i].ext[p - 1]

\* three nested scopes whose builders all resolve the context: a resolve in
\* the innermost completed after three builder invocations, one per scope
C22_Witness ==
  \E i \in ContEntries :
    /\ Len(log[i].ext) = 3
    /\ \A q \in 1..3 : scopes[log[i].ext[q]].builder = "self"
    /\ {log[k].of : k \in NestedCalls(i)} = Range(log[i].ext)
    /\ Cardinality(NestedCalls(i)) = 3

\* resolver calls in which ContextNotProvided was thrown by the resolver
\* itself, not by the frame it called
Raised ==
  {i \in DOMAIN log :
     log[i].res = Err(ContextNotProvided) /\ log[i].src # "frame"}

\* C23 as stated: the resolver throws ContextNotProvided only for a required
\* context with provider[Mock] undefined, in a call made outside every
\* scope of the context, whether a continuation or a builder makes it.
C23_RaisedOnlyOutsideScopes ==
  \A i \in Raised :
    /\ required[log[i].ctx]
    /\ log[i].src = "none"
    /\ log[i].ext = <<>>

\* C23 amended: the resolver throws ContextNotProvided only for a required
\* context with provider[Mock] undefined, in a call that found the stack
\* empty: outside every scope, or from the builder of the outermost scope,
\* whose frame is removed while it runs; a call served by a frame completes
\* with ContextNotProvided only if a call made by its builder threw it.
C23_RaisedOnlyOnEmptyStack ==
  /\ \A i \in Raised :
       /\ required[log[i].ctx]
       /\ log[i].src = "none"
       /\ log[i].item = 0
       /\ \/ log[i].ext = <<>>
          \/ log[i].by = "builder" /\ log[i].of = log[i].ext[1]
  /\ \A i \in DOMAIN log :
       (log[i].res = Err(ContextNotProvided) /\ log[i].src = "frame") =>
         \E k \in Raised : k < i /\ log[k].by = "builder"
                                /\ log[k].of \in Range(log[i].ext)

\* the builder of the only scope resolved and the resolver threw, the
\* continuation's resolve in the scope completed with that error, and a
\* resolve outside every scope threw as well
C23_Witness ==
  \E i \in Raised : \E j \in DOMAIN log : \E k \in Raised :
    /\ log[i].by = "builder" /\ log[i].ext # <<>>
    /\ i < j /\ log[j].by = "cont" /\ log[j].src = "frame"
    /\ log[j].res = Err(ContextNotProvided)
    /\ log[k].by = "cont" /\ log[k].ext = <<>>

\* what createContext keeps for context c: the arrays its StackStorage
\* made, the array of the running continuation, the (cache, initialized)
\* of its providerFn closures, provider[Mock]
OfContext(c) ==
  LET own == {k \in DOMAIN scopes : scopes[k].ctx = c} IN
  [arrays |-> [k \in own |-> stacks[k]],
   current |-> IF callstack = <<>> THEN <<>> ELSE getStack(c),
   cells |-> [k \in own |-> <<scopes[k].cache, scopes[k].initialized>>],
   mock |-> mock[c]]

\* the contexts a step is made for: that of the provider called, of the
\* scope whose fn returns, of the resolver call and the builder call in
\* progress before or after it, of the mockContext call
StepContexts ==
  {scopes'[k].ctx : k \in DOMAIN scopes' \ DOMAIN scopes}
    \cup {mocks'[k].ctx : k \in DOMAIN mocks' \ DOMAIN mocks}
    \cup {callstack[q].ctx : q \in {q \in DOMAIN callstack :
                                      callstack[q].ctx # 0}}
    \cup {callstack'[q].ctx : q \in {q \in DOMAIN callstack' :
                                       callstack'[q].ctx # 0}}
    \cup {scopes[s].ctx : s \in {s \in DOMAIN scopes :
                                   scopes[s].open /\ ~scopes'[s].open}}

\* C24: a step made for one context (a provider call, the return of a
\* scope's fn, a step of a resolver call, a mockContext call) leaves the
\* arrays, the (cache, initialized) cells and provider[Mock] of every other
\* context as they were; an array holds frames of its own context only; and
\* a continuation's resolver call is served by the innermost scope of its
\* own context, two calls served by one scoped scope returning the same
\* instance, whatever scopes of another context were established between
\* or around them.
C24_ContextsIndependent ==
  /\ [][\A c \in Contexts :
          c \notin StepContexts => OfContext(c)' = OfContext(c)]_vars
  /\ [](\A k \in DOMAIN stacks : \A q \in DOMAIN stacks[k] :
          scopes[stacks[k][q]].ctx = scopes[k].ctx)
  /\ [](\A i \in ContEntries :
          /\ log[i].item = IF log[i].ext = <<>> THEN 0 ELSE Last(log[i].ext)
          /\ log[i].item # 0 => scopes[log[i].item].ctx = log[i].ctx
          /\ \A j \in ContEntries :
               (log[j].item = log[i].item /\ log[i].item # 0
                  /\ IsScoped(log[i].item)) => log[j].res = log[i].res)

\* two resolves of context 2 served by one scoped scope returned the same
\* instance; the scope was established inside a scope of context 1, and
\* another scope of context 1 was established inside it between the two
C24_Witness ==
  \E i, j \in ContEntries :
    /\ i < j /\ log[i].ctx = 2 /\ log[j].ctx = 2
    /\ log[i].item # 0 /\ log[j].item = log[i].item
    /\ IsScoped(log[i].item)
    /\ IsVal(i) /\ log[j].res = log[i].res
    /\ \E a \in log[i].live : scopes[a].ctx = 1 /\ a < log[i].item
    /\ \E a \in log[j].live \ log[i].live :
         scopes[a].ctx = 1 /\ a > log[i].item

\* a step of a provider call, of a scope's fn returning, or of a resolver
\* call
ScopeOrResolverStep ==
  \/ Len(scopes') > Len(scopes)
  \/ \E s \in DOMAIN scopes : scopes[s].open /\ ~scopes'[s].open
  \/ \E q \in DOMAIN callstack : callstack[q].kind = "resolver"
  \/ \E q \in DOMAIN callstack' : callstack'[q].kind = "resolver"

\* C25: provider[Mock] changes only in the assignment of a mockContext or
\* mockContext.transient call, never in a step of a provider call, of a
\* scope's exit or of a resolver call; and a resolver call that finds the
\* stack empty, in whichever continuation, is served by the last assignment
\* made before it, whichever continuation made it: it returns the value
\* mockContext assigned, or the outcome of a call of the builder
\* mockContext.transient assigned; with no assignment before it, it is
\* served by none.
C25_MockSlotShared ==
  /\ [][/\ mock' # mock =>
            \/ Running("cont", "mocking")
            \/ Len(mocks') > Len(mocks)
        /\ ScopeOrResolverStep => mock' = mock]_vars
  /\ [](\A k \in DOMAIN mocks :
          mocks[k].set =>
            /\ (\A j \in DOMAIN mocks :
                   (mocks[j].ctx = mocks[k].ctx /\ mocks[j].set) => j <= k)
                 => mock[mocks[k].ctx] = mocks[k].v
            /\ \A i \in UnderMock(k) :
                 /\ log[i].src = "mock"
                 /\ mocks[k].mode = "value" => log[i].res = Val(mocks[k].v)
                 /\ mocks[k].mode = "factory" =>
                      mocks[k].used >= 1 /\ Yields(mocks[k].builder, log[i].res))
  /\ [](\A i \in DOMAIN log :
          (log[i].item = 0 /\ \A k \in DOMAIN mocks :
                                 (mocks[k].ctx = log[i].ctx /\ mocks[k].set)
                                   => mocks[k].at >= i)
            => log[i].src = "none")

\* the first continuation called mockContext, a continuation it had started
\* called mockContext after it, and a resolve the first one then made
\* outside every scope returned the value the second call assigned
C25_Witness ==
  \E k, m \in DOMAIN mocks : \E i \in DOMAIN log :
    /\ k < m /\ mocks[k].set /\ mocks[m].set
    /\ mocks[k].by = 1 /\ mocks[m].by # 1
    /\ mocks[k].v # mocks[m].v
    /\ i \in UnderMock(m) /\ log[i].aid = 1 /\ log[i].ext = <<>>
    /\ log[i].res = Val(mocks[m].v)

\* how a resolver call of context c completes when nothing is provided:
\* the throw if the context is required, undefined if it is optional
Unprovided(c) ==
  IF required[c] THEN Err(ContextNotProvided) ELSE Val(Undefined)

\* C26: once mockContext has assigned undefined to provider[Mock] (its
\* builder returned undefined), every resolver call that finds the stack
\* empty is served by none and completes as the calls made before any
\* mockContext call do: it throws ContextNotProvided if the context is
\* required and returns undefined if it is optional, whatever was assigned
\* before.
C26_UndefinedMockIsUnset ==
  /\ \A k \in DOMAIN mocks :
       (mocks[k].set /\ mocks[k].v = Undefined) =>
         \A i \in UnderMock(k) :
           log[i].src = "none" /\ log[i].res = Unprovided(log[i].ctx)
  /\ \A i \in DOMAIN log :
       (log[i].item = 0 /\ \A k \in DOMAIN mocks : mocks[k].at >= i) =>
         log[i].src = "none" /\ log[i].res = Unprovided(log[i].ctx)

\* mockContext assigned an object and a resolve outside every scope
\* returned it; mockContext then assigned undefined and the next such
\* resolve completed as with nothing provided
C26_Witness ==
  \E k, m \in DOMAIN mocks : \E i, j \in DOMAIN log :
    /\ k < m /\ mocks[k].set /\ mocks[k].v # Undefined
    /\ i \in UnderMock(k) /\ log[i].res = Val(mocks[k].v)
    /\ mocks[m].set /\ mocks[m].v = Undefined
    /\ j \in UnderMock(m) /\ log[j].ext = <<>>
    /\ log[j].res = Unprovided(log[j].ctx)

\* C27: no two scope establishments, by provider or provider.transient,
\* hand the same object to storage.run as their frame: the frames of any
\* two scopes are different objects.
C27_FrameOwnedByOneScope ==
  \A s, u \in DOMAIN scopes : s # u => FrameObject(s) # FrameObject(u)

====
